---- MODULE Spec2Model ----
(***************************************************************************)
(* Gym packlist (src/script.js): the item list `items`, its copy in        *)
(* localStorage, the checklist rendered from it, the shared modal dialog   *)
(* and the handlers that run on user events.                               *)
(*                                                                         *)
(* The handlers are the async ones of lines 1-548.  A handler runs to its  *)
(* first await in one step; the part after `await showModal(...)` runs as  *)
(* a microtask once a click resolved the dialog.  Lines 549-985 hold the   *)
(* same handlers with the blocking confirm()/alert(): their behaviours are *)
(* the ones in which every dialog is answered before the next event.       *)
(***************************************************************************)
EXTENDS Integers, Sequences, FiniteSets, TLC

(***************************************************************************)
(* Strings are sequences of one-character strings.                         *)
(***************************************************************************)
LowerChar(c) ==
    CASE c = "A" -> "a"
      [] c = "G" -> "g"
      [] c = "H" -> "h"
      [] c = "L" -> "l"
      [] c = "S" -> "s"
      [] c = "T" -> "t"
      [] c = "W" -> "w"
      [] OTHER -> c

\* toLowerCase left out
toLowerCase_Identity(s) == s

toLowerCase(s) == [i \in 1..Len(s) |-> LowerChar(s[i])]

IsSpace(c) == c = " "

RECURSIVE TrimLeft(_)
TrimLeft(s) ==
    IF s # <<>> /\ IsSpace(Head(s)) THEN TrimLeft(Tail(s)) ELSE s

RECURSIVE TrimRight(_)
TrimRight(s) ==
    IF s # <<>> /\ IsSpace(s[Len(s)]) THEN TrimRight(SubSeq(s, 1, Len(s) - 1)) ELSE s

\* trim left out
trim_Identity(s) == s

trim(s) == TrimRight(TrimLeft(s))

(***************************************************************************)
(* JavaScript values.  A property value is undefined (the property is      *)
(* absent), a string, a boolean, a number or null.  An array element is an *)
(* object with the properties text, checked and one further property       *)
(* (note), or null.                                                        *)
(***************************************************************************)
Undef   == [ty |-> "undefined", s |-> <<>>, b |-> FALSE]
Str(s)  == [ty |-> "string",    s |-> s,    b |-> FALSE]
Bool(b) == [ty |-> "boolean",   s |-> <<>>, b |-> b]
Num     == [ty |-> "number",    s |-> <<>>, b |-> FALSE]
Null    == [ty |-> "null",      s |-> <<>>, b |-> FALSE]

Obj(t, c, n) == [ty |-> "object", text |-> t, checked |-> c, note |-> n]
Item(s, b)   == Obj(Str(s), Bool(b), Undef)
NullElem     == [ty |-> "null", text |-> Undef, checked |-> Undef, note |-> Undef]

Arr(es)   == [kind |-> "array",  elems |-> es]
JNull     == [kind |-> "null",   elems |-> <<>>]
JObject   == [kind |-> "object", elems |-> <<>>]

\* JavaScript truthiness of a property value (the 1 of Num is truthy).
Truthy(v) ==
    CASE v.ty = "boolean" -> v.b
      [] v.ty = "string"  -> v.s # <<>>
      [] v.ty = "number"  -> TRUE
      [] OTHER            -> FALSE

(***************************************************************************)
(* JSON text is a sequence of tokens; "ws" is the white space that the     *)
(* indented form puts between tokens.                                      *)
(***************************************************************************)
Tok(k)    == [k |-> k, s |-> <<>>]
StrTok(s) == [k |-> "str", s |-> s]
Ws        == Tok("ws")

KeyText    == <<"t", "e", "x", "t">>
KeyChecked == <<"c", "h", "e", "c", "k", "e", "d">>
KeyNote    == <<"n", "o", "t", "e">>

StringifyValue(v) ==
    CASE v.ty = "string"  -> StrTok(v.s)
      [] v.ty = "boolean" -> IF v.b THEN Tok("true") ELSE Tok("false")
      [] v.ty = "number"  -> Tok("num")
      [] OTHER            -> Tok("null")

\* The members of an object, in property order; undefined ones are left out.
Members(o) ==
    SelectSeq(<<[key |-> KeyText, v |-> o.text],
                [key |-> KeyChecked, v |-> o.checked],
                [key |-> KeyNote, v |-> o.note]>>,
              LAMBDA m : m.v.ty # "undefined")

RECURSIVE StringifyMembers(_, _)
StringifyMembers(ms, pretty) ==
    IF ms = <<>> THEN <<>>
    ELSE (IF pretty THEN <<Ws>> ELSE <<>>)
         \o <<StrTok(Head(ms).key), Tok(":")>>
         \o (IF pretty THEN <<Ws>> ELSE <<>>)
         \o <<StringifyValue(Head(ms).v)>>
         \o (IF Len(ms) > 1 THEN <<Tok(",")>> ELSE IF pretty THEN <<Ws>> ELSE <<>>)
         \o StringifyMembers(Tail(ms), pretty)

StringifyElem(e, pretty) ==
    IF e.ty = "null" THEN <<Tok("null")>>
    ELSE <<Tok("{")>> \o StringifyMembers(Members(e), pretty) \o <<Tok("}")>>

RECURSIVE StringifyElems(_, _)
StringifyElems(es, pretty) ==
    IF es = <<>> THEN <<>>
    ELSE (IF pretty THEN <<Ws>> ELSE <<>>)
         \o StringifyElem(Head(es), pretty)
         \o (IF Len(es) > 1 THEN <<Tok(",")>> ELSE IF pretty THEN <<Ws>> ELSE <<>>)
         \o StringifyElems(Tail(es), pretty)

\* JSON.stringify(value) and JSON.stringify(value, null, 2)
JSONstringify(v, pretty) ==
    CASE v.kind = "array"  -> <<Tok("[")>> \o StringifyElems(v.elems, pretty) \o <<Tok("]")>>
      [] v.kind = "object" -> <<Tok("{"), Tok("}")>>
      [] OTHER             -> <<Tok("null")>>

IsScalarTok(t) == t.k \in {"str", "true", "false", "num", "null"}

ParseScalar(t) ==
    CASE t.k = "str"   -> Str(t.s)
      [] t.k = "true"  -> Bool(TRUE)
      [] t.k = "false" -> Bool(FALSE)
      [] t.k = "num"   -> Num
      [] OTHER         -> Null

SetMember(o, key, v) ==
    CASE key = KeyText    -> [o EXCEPT !.text = v]
      [] key = KeyChecked -> [o EXCEPT !.checked = v]
      [] OTHER            -> [o EXCEPT !.note = v]

Fail == [ok |-> FALSE, pos |-> 0, obj |-> NullElem, elems |-> <<>>]

\* key : scalar, then "," and a further member, or "}"
RECURSIVE ParseMembers(_, _, _)
ParseMembers(toks, i, o) ==
    IF i + 3 > Len(toks) \/ toks[i].k # "str" \/ toks[i + 1].k # ":"
       \/ ~IsScalarTok(toks[i + 2])
    THEN Fail
    ELSE LET o2 == SetMember(o, toks[i].s, ParseScalar(toks[i + 2]))
         IN  CASE toks[i + 3].k = "}" -> [ok |-> TRUE, pos |-> i + 4, obj |-> o2, elems |-> <<>>]
               [] toks[i + 3].k = "," -> ParseMembers(toks, i + 4, o2)
               [] OTHER               -> Fail

\* an element starting at i: an object or null
ParseElem(toks, i) ==
    CASE i > Len(toks)       -> Fail
      [] toks[i].k = "null"  -> [ok |-> TRUE, pos |-> i + 1, obj |-> NullElem, elems |-> <<>>]
      [] toks[i].k = "{"     ->
            IF i + 1 <= Len(toks) /\ toks[i + 1].k = "}"
            THEN [ok |-> TRUE, pos |-> i + 2, obj |-> Obj(Undef, Undef, Undef), elems |-> <<>>]
            ELSE ParseMembers(toks, i + 1, Obj(Undef, Undef, Undef))
      [] OTHER               -> Fail

\* element, then "," and a further element, or "]"
RECURSIVE ParseElems(_, _, _)
ParseElems(toks, i, acc) ==
    LET e == ParseElem(toks, i)
    IN  IF ~e.ok \/ e.pos > Len(toks) THEN Fail
        ELSE CASE toks[e.pos].k = "]" ->
                      [ok |-> TRUE, pos |-> e.pos + 1, obj |-> NullElem,
                       elems |-> Append(acc, e.obj)]
               [] toks[e.pos].k = "," -> ParseElems(toks, e.pos + 1, Append(acc, e.obj))
               [] OTHER               -> Fail

SyntaxError == [ok |-> FALSE, val |-> JNull]

\* white space taken for a token
JSONparse_NoSpace(text) ==
    LET toks == text
    IN  CASE toks = <<>> -> SyntaxError
          [] toks = <<Tok("null")>> -> [ok |-> TRUE, val |-> JNull]
          [] toks = <<Tok("{"), Tok("}")>> -> [ok |-> TRUE, val |-> JObject]
          [] toks = <<Tok("["), Tok("]")>> -> [ok |-> TRUE, val |-> Arr(<<>>)]
          [] toks[1].k = "[" ->
                LET r == ParseElems(toks, 2, <<>>)
                IN  IF r.ok /\ r.pos = Len(toks) + 1
                    THEN [ok |-> TRUE, val |-> Arr(r.elems)]
                    ELSE SyntaxError
          [] OTHER -> SyntaxError

\* JSON.parse(text): ok is FALSE where it throws a SyntaxError
JSONparse(text) ==
    LET toks == SelectSeq(text, LAMBDA t : t.k # "ws")
    IN  CASE toks = <<>> -> SyntaxError
          [] toks = <<Tok("null")>> -> [ok |-> TRUE, val |-> JNull]
          [] toks = <<Tok("{"), Tok("}")>> -> [ok |-> TRUE, val |-> JObject]
          [] toks = <<Tok("["), Tok("]")>> -> [ok |-> TRUE, val |-> Arr(<<>>)]
          [] toks[1].k = "[" ->
                LET r == ParseElems(toks, 2, <<>>)
                IN  IF r.ok /\ r.pos = Len(toks) + 1
                    THEN [ok |-> TRUE, val |-> Arr(r.elems)]
                    ELSE SyntaxError
          [] OTHER -> SyntaxError

(***************************************************************************)
(* Constants of the program and the inputs of the model.                   *)
(***************************************************************************)
Towel   == <<"T", "o", "w", "e", "l">>
Water   == <<"W", "a", "t", "e", "r", " ", "b", "o", "t", "t", "l", "e">>
Phones  == <<"H", "e", "a", "d", "p", "h", "o", "n", "e", "s">>
Shoes   == <<"G", "y", "m", " ", "s", "h", "o", "e", "s">>
Clothes == <<"W", "o", "r", "k", "o", "u", "t", " ", "c", "l", "o", "t", "h", "e", "s">>
Lock    == <<"L", "o", "c", "k">>
Socks   == <<"S", "o", "c", "k", "s">>

DEFAULT_ITEMS ==
    <<Item(Towel, FALSE), Item(Water, FALSE), Item(Phones, FALSE),
      Item(Shoes, FALSE), Item(Clothes, FALSE), Item(Lock, FALSE)>>

\* Handler invocations (user events) in one run.
MaxOps == 2
\* Positions of the rendered list the user clicks on: 0 .. MaxIndex.
MaxIndex == 1

\* What the user types into newItemInput.
AddInputs ==
    { <<>>, <<" ", " ">>, <<" ", " ">> \o Socks \o <<" ", " ">>,
      <<"s", "o", "c", "k", "s">>, <<"t", "o", "w", "e", "l">> }

\* Index arguments: the rendered positions, and one below and one above the range.
IndexInputs(n) == (0 .. MaxIndex) \cup {-1, n}

Absent      == [present |-> FALSE, text |-> <<>>]
Stored(txt) == [present |-> TRUE, text |-> txt]

SavedList == <<Item(Socks, TRUE), Item(<<"a">>, FALSE)>>

\* A list saved after an import: one checked item with the empty text.
SavedImport == <<Item(<<>>, TRUE)>>

\* What localStorage holds under STORAGE_KEY when the page is opened.
StoredInputs ==
    { Absent, Stored(<<>>), Stored(<<Tok("{")>>), Stored(<<Tok("null")>>),
      Stored(JSONstringify(Arr(SavedList), FALSE)),
      Stored(JSONstringify(Arr(SavedImport), FALSE)) }

\* A file: its name ends in .json, it can be read, its text; for a backup
\* written by handleExport, the items it was written from.
File(json, readable, text, of) ==
    [json |-> json, readable |-> readable, text |-> text, backup |-> of.kind # "null", of |-> of]

NoFile == File(TRUE, TRUE, <<>>, JNull)

\* The list of an earlier session, which handleExport wrote a backup of.
EarlierList == <<Item(Towel, TRUE), Item(Socks, FALSE)>>

\* Files the user can pick besides the backups exported in this session.
FileInputs ==
    { \* the backup of the earlier session
      File(TRUE, TRUE, JSONstringify(Arr(EarlierList), TRUE), Arr(EarlierList)),
      \* a backup written by hand: a further property on the first element,
      \* two texts equal up to case, an empty text
      File(TRUE, TRUE, JSONstringify(Arr(<<Obj(Str(<<"a">>), Bool(TRUE), Str(<<"x">>)),
                                          Item(<<"A">>, FALSE), Item(<<>>, FALSE)>>),
                                     TRUE), JNull),
      \* the second element lacks checked
      File(TRUE, TRUE, JSONstringify(Arr(<<Item(<<"b">>, FALSE),
                                          Obj(Str(<<"c">>), Undef, Undef)>>), FALSE), JNull),
      \* text is a number
      File(TRUE, TRUE, JSONstringify(Arr(<<Obj(Num, Bool(FALSE), Undef)>>), FALSE), JNull),
      \* an element that is null ; not an array ; not JSON
      File(TRUE, TRUE, JSONstringify(Arr(<<NullElem>>), FALSE), JNull),
      File(TRUE, TRUE, JSONstringify(JObject, FALSE), JNull),
      File(TRUE, TRUE, <<Tok("["), Tok("{")>>, JNull),
      \* a name that does not end in .json ; a file that cannot be read
      File(FALSE, TRUE, <<Tok("["), Tok("]")>>, JNull),
      File(TRUE, FALSE, <<>>, JNull) }

VARIABLES
    items,       \* let items (line 36)
    storage,     \* localStorage[STORAGE_KEY]
    pc,          \* "start" before DOMContentLoaded, "running" once the listeners
                 \* are attached, "dead" when the DOMContentLoaded handler threw
    dom,         \* the children of checklistContainer: <<item, index>> per row
    pending,     \* the dialogs opened by showModal and not yet resolved
    microtasks,  \* resolved dialogs whose awaiting handler has not resumed
    reading,     \* files a FileReader is reading
    downloads,   \* backup files written by handleExport
    last,        \* the step taken last and how it ended
    before,      \* items and localStorage[STORAGE_KEY] as that step found them
    ops          \* handler invocations so far

vars == <<items, storage, pc, dom, pending, microtasks, reading, downloads, last, before,
          ops>>

\* The step taken last: the handler (loadItems, handleAddItem, ..., onload,
\* onerror, click) or, for the part of a handler after its await, the dialog
\* it awaited (delete, reset, import, alert); how it ended; its arguments;
\* and what its saveItems did ("none": it did not save).
Step(op, result, index, input, file, wrote) ==
    [op |-> op, result |-> result, index |-> index, input |-> input, file |-> file,
     wrote |-> wrote]

(***************************************************************************)
(* Dialogs.  There is one modal in the page; showModal attaches a confirm, *)
(* a cancel and a backdrop listener per call and resolves the promise of   *)
(* the call when one of its listeners runs.                                *)
(***************************************************************************)
\* A call of showModal that is not resolved: its title, whether it asked for
\* modalCancel, and the handler awaiting it (op, with its locals: index,
\* itemText, imported, file).
Dialog(title, op, index, itemText, imported, showCancel, file) ==
    [title |-> title, op |-> op, index |-> index, itemText |-> itemText,
     imported |-> imported, showCancel |-> showCancel, file |-> file]

showModal(p, d) == Append(p, d)

showAlert(p, title) ==
    showModal(p, Dialog(title, "alert", -1, Undef, <<>>, FALSE, NoFile))

\* the title the handler op passes to showConfirm
ConfirmTitle(op) ==
    CASE op = "delete" -> "Delete Item"
      [] op = "reset"  -> "Reset Checklist"
      [] OTHER         -> "Import Backup"

showConfirm(p, op, index, itemText, imported, file) ==
    showModal(p, Dialog(ConfirmTitle(op), op, index, itemText, imported, TRUE, file))

\* modalTitle.textContent while the modal is shown: every showModal call
\* sets it, so it is the title of the call made last
modalTitle(p) == IF p = <<>> THEN "" ELSE p[Len(p)].title

(***************************************************************************)
(* localStorage                                                            *)
(***************************************************************************)
\* localStorage.setItem of saveItems; accept is FALSE where setItem throws
setItem(st, its, accept) ==
    IF accept THEN Stored(JSONstringify(its, FALSE)) ELSE st

\* saveItems: the write, and the alert it opens when the write is rejected
saveItems(st, p, its, accept) ==
    [storage |-> setItem(st, its, accept),
     pending |-> IF accept THEN p ELSE showAlert(p, "Storage Error"),
     wrote   |-> IF accept THEN "ok" ELSE "failed"]

\* the defaults are not saved
loadItems_NoSave(st, p, accept) ==
    IF ~st.present \/ st.text = <<>>
    THEN [items |-> Arr(DEFAULT_ITEMS), storage |-> st, pending |-> p, wrote |-> "none",
          result |-> "default"]
    ELSE LET r == JSONparse(st.text)
         IN  IF r.ok
             THEN [items |-> r.val, storage |-> st, pending |-> p, wrote |-> "none",
                   result |-> "parsed"]
             ELSE [items |-> Arr(DEFAULT_ITEMS), storage |-> st, pending |-> p,
                   wrote |-> "none", result |-> "ParseError"]

\* loadItems: the new items, and what its saveItems did
loadItems(st, p, accept) ==
    IF ~st.present \/ st.text = <<>>
    THEN LET sv == saveItems(st, p, Arr(DEFAULT_ITEMS), accept)
         IN  [items |-> Arr(DEFAULT_ITEMS), storage |-> sv.storage,
              pending |-> sv.pending, wrote |-> sv.wrote, result |-> "default"]
    ELSE LET r == JSONparse(st.text)
         IN  IF r.ok
             THEN [items |-> r.val, storage |-> st, pending |-> p, wrote |-> "none",
                   result |-> "parsed"]
             ELSE [items |-> Arr(DEFAULT_ITEMS), storage |-> st, pending |-> p,
                   wrote |-> "none", result |-> "ParseError"]

(***************************************************************************)
(* Rendering                                                               *)
(***************************************************************************)
\* checked rows first
Compare_Swapped(a, b) ==
    IF a.item.checked # b.item.checked
    THEN (IF Truthy(a.item.checked) THEN -1 ELSE 1)
    ELSE a.index - b.index

\* the comparator of the sort in renderChecklist
Compare(a, b) ==
    IF a.item.checked # b.item.checked
    THEN (IF Truthy(a.item.checked) THEN 1 ELSE -1)
    ELSE a.index - b.index

RECURSIVE Insert(_, _)
Insert(s, x) ==
    IF s = <<>> THEN <<x>>
    ELSE IF Compare(x, Head(s)) < 0 THEN <<x>> \o s
    ELSE <<Head(s)>> \o Insert(Tail(s), x)

\* Array.prototype.sort with Compare, which orders any two rows one way
RECURSIVE Sort(_)
Sort(s) == IF s = <<>> THEN <<>> ELSE Insert(Sort(SubSeq(s, 1, Len(s) - 1)), s[Len(s)])

\* items.map((item, index) => ({ item, index }))
itemsWithIndices(es) == [i \in 1..Len(es) |-> [item |-> es[i], index |-> i - 1]]

\* renderChecklist throws a TypeError: items is no array, or an element is null
RenderThrows(v) == v.kind # "array" \/ \E i \in 1..Len(v.elems) : v.elems[i].ty = "null"

\* items.sort(...): the array items itself is sorted
renderChecklist_InPlace(v) ==
    [rows  |-> IF RenderThrows(v) THEN <<>> ELSE Sort(itemsWithIndices(v.elems)),
     items |-> IF RenderThrows(v) THEN v
               ELSE Arr([i \in 1..Len(v.elems) |-> Sort(itemsWithIndices(v.elems))[i].item])]

\* renderChecklist: the rows it leaves in checklistContainer, and the array
\* items after the call (the sort is of the mapped copy)
renderChecklist(v) ==
    [rows  |-> IF RenderThrows(v) THEN <<>> ELSE Sort(itemsWithIndices(v.elems)),
     items |-> v]

(***************************************************************************)
(* The list operations of the handlers                                     *)
(***************************************************************************)
\* items.find(item => item.text.toLowerCase() === text.toLowerCase()):
\* "found", "none", or "throw" where item.text has no toLowerCase
\* the texts compared as they are
RECURSIVE FindDuplicate_CaseSensitive(_, _)
FindDuplicate_CaseSensitive(es, text) ==
    IF es = <<>> THEN "none"
    ELSE IF Head(es).text.ty # "string" THEN "throw"
    ELSE IF Head(es).text.s = text THEN "found"
    ELSE FindDuplicate_CaseSensitive(Tail(es), text)

RECURSIVE FindDuplicate(_, _)
FindDuplicate(es, text) ==
    IF es = <<>> THEN "none"
    ELSE IF Head(es).text.ty # "string" THEN "throw"
    ELSE IF toLowerCase(Head(es).text.s) = toLowerCase(text) THEN "found"
    ELSE FindDuplicate(Tail(es), text)

\* index >= 0 && index < items.length
InRange(index, es) == index >= 0 /\ index < Len(es)

\* items[index].checked = true
ToggleAt_Check(es, index) == [es EXCEPT ![index + 1].checked = Bool(TRUE)]

\* items[index].checked = !items[index].checked
ToggleAt(es, index) ==
    [es EXCEPT ![index + 1].checked = Bool(~Truthy(es[index + 1].checked))]

\* items.splice(index): the count left out, the rest of the array goes
Splice_NoCount(es, index) == SubSeq(es, 1, index)

\* items.splice(index, 1), index >= 0
Splice(es, index) ==
    IF index < Len(es)
    THEN SubSeq(es, 1, index) \o SubSeq(es, index + 2, Len(es))
    ELSE es

\* item.checked = !item.checked
UncheckAll_Flip(es) == [i \in 1..Len(es) |-> [es[i] EXCEPT !.checked = Bool(~Truthy(@))]]

\* items.forEach(item => { item.checked = false; })
UncheckAll(es) == [i \in 1..Len(es) |-> [es[i] EXCEPT !.checked = Bool(FALSE)]]

\* items.some(item => item.checked)
HasCheckedItems(es) == \E i \in 1..Len(es) : Truthy(es[i].checked)

\* checked is not looked at
RECURSIVE Validate_TextOnly(_)
Validate_TextOnly(es) ==
    IF es = <<>> THEN "valid"
    ELSE IF Head(es).ty = "null" THEN "throw"
    ELSE IF Head(es).text.ty = "string" THEN Validate_TextOnly(Tail(es))
    ELSE "invalid"

\* the validation of reader.onload: "valid", "invalid", or "throw" where
\* hasOwnProperty is called on null (every stops at the first failure)
RECURSIVE Validate(_)
Validate(es) ==
    IF es = <<>> THEN "valid"
    ELSE IF Head(es).ty = "null" THEN "throw"
    ELSE IF Head(es).text.ty = "string" /\ Head(es).checked.ty = "boolean"
         THEN Validate(Tail(es))
    ELSE "invalid"

(***************************************************************************)
(* The handlers, as functions of the state s they read: s.items,           *)
(* s.storage, s.pending, s.dom.  Each result names the new values of       *)
(* these, how the handler ended and what its saveItems did.                *)
(* accept: localStorage takes the write.                                   *)
(***************************************************************************)
\* the handler returns
Done(s, result) ==
    [items |-> s.items, storage |-> s.storage, pending |-> s.pending, dom |-> s.dom,
     result |-> result, wrote |-> "none"]

\* the title of the alert a handler shows when it ends with result
AlertTitle(result) ==
    CASE result = "EmptyText"       -> "Error"
      [] result = "DuplicateText"   -> "Duplicate Item"
      [] result = "Notice"          -> "Notice"
      [] result = "ExportFailed"    -> "Error"
      [] result = "InvalidFile"     -> "Invalid File"
      [] result = "MalformedImport" -> "Import Error"
      [] result = "ReadError"       -> "Error"
      [] OTHER                      -> "Success"

\* await showAlert(...); return
Alert(s, result) ==
    Done([s EXCEPT !.pending = showAlert(s.pending, AlertTitle(result))], result)

\* await showConfirm(...)
Confirm(s, op, index, itemText, imported, file) ==
    Done([s EXCEPT !.pending = showConfirm(s.pending, op, index, itemText, imported, file)],
         "prompt")

\* items = its (as changed by the handler); saveItems(); renderChecklist()
SaveAndRender(s, its, accept) ==
    LET sv == saveItems(s.storage, s.pending, its, accept)
        rd == renderChecklist(its)
    IN  [items |-> rd.items, storage |-> sv.storage, pending |-> sv.pending,
         dom |-> rd.rows, result |-> "ok", wrote |-> sv.wrote]

\* items.unshift(newItem) in place of items.push(newItem)
AddItem_Unshift(s, input, accept) ==
    LET text == trim(input)
        duplicate == FindDuplicate(s.items.elems, text)
    IN  CASE text = <<>>         -> Alert(s, "EmptyText")
          [] duplicate = "throw" -> Done(s, "TypeError")
          [] duplicate = "found" -> Alert(s, "DuplicateText")
          [] OTHER -> SaveAndRender(s, Arr(<<Item(text, FALSE)>> \o s.items.elems), accept)

AddItem(s, input, accept) ==
    LET text == trim(input)
        duplicate == FindDuplicate(s.items.elems, text)
    IN  CASE text = <<>>         -> Alert(s, "EmptyText")
          [] duplicate = "throw" -> Done(s, "TypeError")
          [] duplicate = "found" -> Alert(s, "DuplicateText")
          [] OTHER -> SaveAndRender(s, Arr(Append(s.items.elems, Item(text, FALSE))), accept)

ToggleItem(s, index, accept) ==
    IF InRange(index, s.items.elems)
    THEN SaveAndRender(s, Arr(ToggleAt(s.items.elems, index)), accept)
    ELSE Done(s, "IndexError")

\* handleDeleteItem up to its await
DeleteItem(s, index) ==
    IF InRange(index, s.items.elems)
    THEN Confirm(s, "delete", index, s.items.elems[index + 1].text, <<>>, NoFile)
    ELSE Done(s, "IndexError")

\* the row is taken out of checklistContainer, the item stays in items
DeleteResume_RowOnly(s, d, confirmed, accept) ==
    IF confirmed
    THEN [SaveAndRender(s, s.items, accept) EXCEPT
             !.dom = SelectSeq(@, LAMBDA row : row.index # d.index)]
    ELSE Done(s, "cancelled")

\* handleDeleteItem after its await
DeleteResume(s, d, confirmed, accept) ==
    IF confirmed
    THEN SaveAndRender(s, Arr(Splice(s.items.elems, d.index)), accept)
    ELSE Done(s, "cancelled")

\* the test for a checked item left out
Reset_NoCheckedGuard(s) ==
    CASE Len(s.items.elems) = 0 -> Alert(s, "Notice")
      [] OTHER                  -> Confirm(s, "reset", -1, Undef, <<>>, NoFile)

\* handleReset up to its await
Reset(s) ==
    CASE Len(s.items.elems) = 0         -> Alert(s, "Notice")
      [] ~HasCheckedItems(s.items.elems) -> Alert(s, "Notice")
      [] OTHER                           -> Confirm(s, "reset", -1, Undef, <<>>, NoFile)

\* handleReset after its await
ResetResume(s, d, confirmed, accept) ==
    IF confirmed
    THEN SaveAndRender(s, Arr(UncheckAll(s.items.elems)), accept)
    ELSE Done(s, "cancelled")

\* reader.onload up to its await
ImportRead(s, file) ==
    LET r == JSONparse(file.text)
        v == IF r.ok /\ r.val.kind = "array" THEN Validate(r.val.elems) ELSE "throw"
    IN  IF v = "valid"
        THEN Confirm(s, "import", -1, Undef, r.val.elems, file)
        ELSE Alert(s, "MalformedImport")

\* reader.onload after the await of its showConfirm
ImportResume(s, d, confirmed, accept) ==
    IF confirmed
    THEN LET r == SaveAndRender(s, Arr(d.imported), accept)
         IN  [r EXCEPT !.pending = showAlert(r.pending, "Success")]
    ELSE Done(s, "cancelled")

\* the part of a handler that awaited dialog d
Resume(s, d, confirmed, accept) ==
    CASE d.op = "delete" -> DeleteResume(s, d, confirmed, accept)
      [] d.op = "reset"  -> ResetResume(s, d, confirmed, accept)
      [] d.op = "import" -> ImportResume(s, d, confirmed, accept)
      [] OTHER           -> Done(s, "closed")

(***************************************************************************)
(* The state machine                                                       *)
(***************************************************************************)
Init ==
    /\ items = Arr(<<>>)
    /\ storage \in StoredInputs
    /\ pc = "start"
    /\ dom = <<>>
    /\ pending = <<>>
    /\ microtasks = <<>>
    /\ reading = <<>>
    /\ downloads = {}
    /\ last = Step("init", "ok", -1, <<>>, NoFile, "none")
    /\ before = [items |-> items, storage |-> storage]
    /\ ops = 0

Cur == [items |-> items, storage |-> storage, pending |-> pending, dom |-> dom]

\* the state after a handler with the result r
Apply(r, op, index, input, file) ==
    /\ items' = r.items
    /\ storage' = r.storage
    /\ pending' = r.pending
    /\ dom' = r.dom
    /\ last' = Step(op, r.result, index, input, file, r.wrote)
    /\ before' = [items |-> items, storage |-> storage]

\* DOMContentLoaded: loadItems(); renderChecklist(); attachEventListeners()
Load ==
    /\ pc = "start"
    /\ \E accept \in BOOLEAN :
          LET r == loadItems(storage, pending, accept)
          IN  /\ items' = r.items
              /\ storage' = r.storage
              /\ pending' = r.pending
              /\ dom' = renderChecklist(r.items).rows
              /\ pc' = IF RenderThrows(r.items) THEN "dead" ELSE "running"
              /\ last' = Step("loadItems", r.result, -1, <<>>, NoFile, r.wrote)
    /\ before' = [items |-> items, storage |-> storage]
    /\ UNCHANGED <<microtasks, reading, downloads, ops>>

\* an event of the page can be handled: the listeners are attached, no
\* microtask is left to run, and the run has handler invocations left
UserEvent == pc = "running" /\ microtasks = <<>> /\ ops < MaxOps

handleAddItem ==
    /\ UserEvent
    /\ \E input \in AddInputs, accept \in BOOLEAN :
          Apply(AddItem(Cur, input, accept), "handleAddItem", -1, input, NoFile)
    /\ ops' = ops + 1
    /\ UNCHANGED <<pc, microtasks, reading, downloads>>

handleToggleItem ==
    /\ UserEvent
    /\ \E index \in IndexInputs(Len(items.elems)), accept \in BOOLEAN :
          Apply(ToggleItem(Cur, index, accept), "handleToggleItem", index, <<>>, NoFile)
    /\ ops' = ops + 1
    /\ UNCHANGED <<pc, microtasks, reading, downloads>>

handleDeleteItem ==
    /\ UserEvent
    /\ \E index \in IndexInputs(Len(items.elems)) :
          Apply(DeleteItem(Cur, index), "handleDeleteItem", index, <<>>, NoFile)
    /\ ops' = ops + 1
    /\ UNCHANGED <<pc, microtasks, reading, downloads>>

handleReset ==
    /\ UserEvent
    /\ Apply(Reset(Cur), "handleReset", -1, <<>>, NoFile)
    /\ ops' = ops + 1
    /\ UNCHANGED <<pc, microtasks, reading, downloads>>

\* items.sort(...) before JSON.stringify: the backup in display order
Export_SortsItems(s, files, failed) ==
    LET t == [s EXCEPT !.items = renderChecklist_InPlace(s.items).items]
    IN  CASE Len(s.items.elems) = 0 -> [files |-> files, r |-> Alert(s, "Notice")]
          [] failed                 -> [files |-> files, r |-> Alert(s, "ExportFailed")]
          [] OTHER ->
                [files |-> files \cup {File(TRUE, TRUE, JSONstringify(t.items, TRUE), t.items)},
                 r |-> Alert(t, "ok")]

\* handleExport; failed: the download throws (Blob, createObjectURL, the link)
Export(s, files, failed) ==
    CASE Len(s.items.elems) = 0 -> [files |-> files, r |-> Alert(s, "Notice")]
      [] failed                 -> [files |-> files, r |-> Alert(s, "ExportFailed")]
      [] OTHER ->
            [files |-> files \cup {File(TRUE, TRUE, JSONstringify(s.items, TRUE), s.items)},
             r |-> Alert(s, "ok")]

handleExport ==
    /\ UserEvent
    /\ \E failed \in BOOLEAN :
          LET e == Export(Cur, downloads, failed)
          IN  /\ downloads' = e.files
              /\ Apply(e.r, "handleExport", -1, <<>>, NoFile)
    /\ ops' = ops + 1
    /\ UNCHANGED <<pc, microtasks, reading>>

\* handleImportFile, the change event of importFileInput, for the file
\* picked by the user: the files now read, and the handler's result
ImportFile(s, rd, file) ==
    IF file.json
    THEN [reading |-> Append(rd, file), r |-> Done(s, "reading")]
    ELSE [reading |-> rd, r |-> Alert(s, "InvalidFile")]

handleImportFile ==
    /\ UserEvent
    /\ \E file \in FileInputs \cup downloads :
          LET i == ImportFile(Cur, reading, file)
          IN  /\ reading' = i.reading
              /\ Apply(i.r, "handleImportFile", -1, <<>>, file)
    /\ ops' = ops + 1
    /\ UNCHANGED <<pc, microtasks, downloads>>

Remove(s, k) == SubSeq(s, 1, k - 1) \o SubSeq(s, k + 1, Len(s))

\* a FileReader ends: reader.onload, or reader.onerror
readerDone ==
    /\ pc = "running" /\ microtasks = <<>>
    /\ \E k \in 1..Len(reading) :
          /\ reading' = Remove(reading, k)
          /\ IF reading[k].readable
             THEN Apply(ImportRead(Cur, reading[k]), "onload", -1, <<>>, reading[k])
             ELSE Apply(Alert(Cur, "ReadError"), "onerror", -1, <<>>, reading[k])
    /\ UNCHANGED <<pc, microtasks, downloads, ops>>

\* handleBackdrop calls handleConfirm
Resolved_BackdropConfirms(p, button) ==
    [i \in 1..Len(p) |-> [d |-> p[i], confirmed |-> (button # "cancel")]]

\* the promises a click on button resolves, in the order of their showModal
\* calls: every listener attached to the clicked element runs
Resolved(p, button) ==
    [i \in 1..Len(p) |-> [d |-> p[i], confirmed |-> (button = "confirm")]]

\* A click on modalConfirm, on modalCancel or on the backdrop.  Each listener
\* that runs removes the listeners of its showModal call.  modalCancel is
\* shown when the last showModal call asked for it.
clickModal ==
    /\ pending # <<>> /\ microtasks = <<>>
    /\ \E button \in {"confirm", "cancel", "backdrop"} :
          /\ button = "cancel" => pending[Len(pending)].showCancel
          /\ microtasks' = Resolved(pending, button)
          /\ last' = Step("click", button, -1, <<>>, NoFile, "none")
    /\ before' = [items |-> items, storage |-> storage]
    /\ pending' = <<>>
    /\ UNCHANGED <<items, storage, pc, dom, reading, downloads, ops>>

\* the handler that awaited the first resolved dialog runs to its end or
\* to its next await
runMicrotask ==
    /\ microtasks # <<>>
    /\ \E accept \in BOOLEAN :
          LET m == Head(microtasks)
          IN  Apply(Resume(Cur, m.d, m.confirmed, accept), m.d.op, m.d.index, <<>>, m.d.file)
    /\ microtasks' = Tail(microtasks)
    /\ UNCHANGED <<pc, reading, downloads, ops>>

Next ==
    \/ Load
    \/ handleAddItem
    \/ handleToggleItem
    \/ handleDeleteItem
    \/ handleReset
    \/ handleExport
    \/ handleImportFile
    \/ readerDone
    \/ clickModal
    \/ runMicrotask

Spec == Init /\ [][Next]_vars

(***************************************************************************)
(* Properties                                                              *)
(***************************************************************************)
Elems == items.elems

\* two texts are equal under case-insensitive comparison
SameIgnoringCase(a, b) ==
    Len(a) = Len(b) /\ \A k \in 1..Len(a) : LowerChar(a[k]) = LowerChar(b[k])

NoDuplicateTexts(es) ==
    \A i, j \in 1..Len(es) : i < j => ~SameIgnoringCase(es[i].text.s, es[j].text.s)

\* a text that is empty or of blanks only
Blank(t) == \A k \in 1..Len(t) : t[k] = " "

NoBlankText(es) == \A i \in 1..Len(es) : ~Blank(es[i].text.s)

\* the step adopts a list as it is given: loadItems, or a confirmed import
Adopted == last.op = "loadItems" \/ (last.op = "import" /\ last.result = "ok")

\* C1 as stated: in every state reachable by load, add, toggle, remove,
\* resetChecks and import, no two items have texts equal under
\* case-insensitive comparison.
C1_NoDuplicatesEver == pc = "running" => NoDuplicateTexts(Elems)

\* C1 as amended: add, toggle, remove and resetChecks never create two items
\* with texts equal under case-insensitive comparison; every step other than
\* loadItems and a confirmed import keeps a list without such a pair without
\* one.
C1_NoDuplicatesKept ==
    [][(NoDuplicateTexts(Elems) /\ ~Adopted') => NoDuplicateTexts(Elems')]_vars

\* an add went through next to six other items, and no two texts are equal
C1_Witness ==
    /\ last.op = "handleAddItem" /\ last.result = "ok"
    /\ Len(Elems) = 7 /\ NoDuplicateTexts(Elems)

\* C2 as stated: in every state reachable by load, add, toggle, remove,
\* resetChecks and import, every item's text is non-empty and not
\* whitespace-only.
C2_NoBlankTextEver == pc = "running" => NoBlankText(Elems)

\* C2 as amended: add, toggle, remove and resetChecks never create an item
\* whose text is empty or whitespace-only; every step other than loadItems
\* and a confirmed import keeps a list without such an item without one.
C2_NoBlankTextKept ==
    [][(NoBlankText(Elems) /\ ~Adopted') => NoBlankText(Elems')]_vars

\* an add of blanks was turned down and no text of the list is blank
C2_Witness ==
    /\ last.op = "handleAddItem" /\ last.result = "EmptyText"
    /\ last.input = <<" ", " ">> /\ NoBlankText(Elems) /\ Len(Elems) > 0

\* some item's text equals the trimmed input under case-insensitive comparison
IsDuplicate(es, input) ==
    \E i \in 1..Len(es) : SameIgnoringCase(es[i].text.s, trim(input))

\* C3 as stated: for every state and every input, if some item's text equals
\* the trimmed input under case-insensitive comparison, add fails with
\* DuplicateText and leaves the list and the persisted value unchanged.
C3_DuplicateRejected ==
    [][(last'.op = "handleAddItem" /\ IsDuplicate(Elems, last'.input))
        => (last'.result = "DuplicateText" /\ items' = items /\ storage' = storage)]_vars

\* C3 as amended: for every state and every input that is not empty after
\* trimming, if some item's text equals the trimmed input under
\* case-insensitive comparison, add fails with DuplicateText and leaves the
\* list and the persisted value unchanged.
C3_NonEmptyDuplicateRejected ==
    [][(last'.op = "handleAddItem" /\ ~Blank(last'.input)
         /\ IsDuplicate(Elems, last'.input))
        => (last'.result = "DuplicateText" /\ items' = items /\ storage' = storage)]_vars

\* "towel" was turned down next to the default item "Towel"
C3_Witness ==
    /\ last.op = "handleAddItem" /\ last.result = "DuplicateText"
    /\ last.input = <<"t", "o", "w", "e", "l">>
    /\ \E i \in 1..Len(Elems) : Elems[i].text.s = <<"T", "o", "w", "e", "l">>

\* t is input without its leading and trailing blanks
IsTrimOf(t, input) ==
    /\ t # <<>> => (t[1] # " " /\ t[Len(t)] # " ")
    /\ \E i, j \in 0..Len(input) :
          /\ i + Len(t) + j = Len(input)
          /\ SubSeq(input, i + 1, i + Len(t)) = t
          /\ \A k \in 1..Len(input) : (k <= i \/ k > i + Len(t)) => input[k] = " "

\* the persistence medium holds the serialization of the list its
Persisted(st, its) == st.present /\ JSONparse(st.text) = [ok |-> TRUE, val |-> its]

\* the step saved: localStorage holds the new list, or it rejected the write
\* and holds what it held
Saved ==
    /\ last'.wrote \in {"ok", "failed"}
    /\ last'.wrote = "ok" => Persisted(storage', items')
    /\ last'.wrote = "failed" => storage' = storage

\* the step left the list and the persisted value as they were
Untouched == items' = items /\ storage' = storage /\ last'.wrote = "none"

\* C4: add with an empty or whitespace-only input fails with EmptyText and
\* leaves the list unchanged; add with any other input that is no duplicate
\* appends one item at the end, with the trimmed input as text and unchecked,
\* leaves every other item at its index with its text and flag, and saves.
C4_Add ==
    [][last'.op = "handleAddItem" =>
        IF Blank(last'.input)
        THEN last'.result = "EmptyText" /\ Untouched
        ELSE IsDuplicate(Elems, last'.input)
             \/ /\ last'.result = "ok"
                /\ Len(Elems') = Len(Elems) + 1
                /\ \A i \in 1..Len(Elems) : Elems'[i] = Elems[i]
                /\ Elems'[Len(Elems')].ty = "object"
                /\ Elems'[Len(Elems')].text.ty = "string"
                /\ IsTrimOf(Elems'[Len(Elems')].text.s, last'.input)
                /\ Elems'[Len(Elems')].checked = Bool(FALSE)
                /\ Elems'[Len(Elems')].note = Undef
                /\ Saved]_vars

\* "  Socks  " was added as "Socks", unchecked, at the end, and is persisted
C4_Witness ==
    /\ last.op = "handleAddItem" /\ last.result = "ok" /\ last.wrote = "ok"
    /\ last.input = <<" ", " ", "S", "o", "c", "k", "s", " ", " ">>
    /\ Len(Elems) > 1
    /\ Elems[Len(Elems)] = Item(<<"S", "o", "c", "k", "s">>, FALSE)
    /\ Persisted(storage, items)

\* C5: toggle(index) with index outside [0, length) fails and leaves the list
\* and the persisted value unchanged; with index in range it flips the
\* checked flag of the item at that index, leaves that item's text and every
\* other item unchanged, and saves.
C5_Toggle ==
    [][last'.op = "handleToggleItem" =>
        LET i == last'.index
        IN  IF i < 0 \/ i >= Len(Elems)
            THEN last'.result = "IndexError" /\ Untouched /\ pending' = pending
            ELSE /\ last'.result = "ok"
                 /\ Len(Elems') = Len(Elems)
                 /\ \A k \in 1..Len(Elems) : k # i + 1 => Elems'[k] = Elems[k]
                 /\ Elems'[i + 1].text = Elems[i + 1].text
                 /\ Elems'[i + 1].note = Elems[i + 1].note
                 /\ Elems'[i + 1].checked.ty = "boolean"
                 /\ Elems'[i + 1].checked.b = ~Elems[i + 1].checked.b
                 /\ Saved]_vars

\* the item at index 1 of three or more was unchecked again, and no other
\* item is checked or gone
C5_Witness ==
    /\ last.op = "handleToggleItem" /\ last.result = "ok" /\ last.index = 1
    /\ last.wrote = "ok" /\ Persisted(storage, items)
    /\ items = Arr(DEFAULT_ITEMS) /\ ops = 2

\* a toggle with an index out of range left everything as it was
C5_WitnessOutOfRange ==
    /\ last.op = "handleToggleItem" /\ last.result = "IndexError"
    /\ last.index = Len(Elems) /\ Len(Elems) > 0

\* C6: remove(index), confirmed, with index in range deletes the item at that
\* index: the list is one shorter, the items before it keep their places, the
\* items after it move down by one, texts and flags are unchanged, and the
\* result is saved; with index out of range it fails and changes nothing.
\* (The range is that of the list at the time of the splice.)
C6_Remove ==
    [][/\ last'.op = "handleDeleteItem" =>
            /\ Untouched
            /\ (last'.index < 0 \/ last'.index >= Len(Elems)) =>
                   (last'.result = "IndexError" /\ pending' = pending)
       /\ (last'.op = "delete" /\ Head(microtasks).confirmed
           /\ last'.index < Len(Elems)) =>
            LET i == last'.index
            IN  /\ Len(Elems') = Len(Elems) - 1
                /\ \A k \in 1..Len(Elems') :
                      Elems'[k] = IF k <= i THEN Elems[k] ELSE Elems[k + 1]
                /\ Saved]_vars

\* the first of the six default items was removed after a confirmation: the
\* other five have moved down
C6_Witness ==
    /\ last.op = "delete" /\ last.result = "ok" /\ last.index = 0 /\ last.wrote = "ok"
    /\ items = Arr(Tail(DEFAULT_ITEMS))
    /\ Persisted(storage, items)

\* a remove with an index out of range was turned down
C6_WitnessOutOfRange ==
    /\ last.op = "handleDeleteItem" /\ last.result = "IndexError" /\ last.index = -1
    /\ pending = <<>>

\* the text of the file is no JSON, no array, or has an element without a
\* string text or without a boolean checked
Malformed(file) ==
    LET r == JSONparse(file.text)
    IN  \/ ~r.ok
        \/ r.val.kind # "array"
        \/ \E i \in 1..Len(r.val.elems) :
              \/ r.val.elems[i].ty # "object"
              \/ r.val.elems[i].text.ty # "string"
              \/ r.val.elems[i].checked.ty # "boolean"

\* C7: an import whose input is no array, or has an element lacking a string
\* text or a boolean checked, fails with MalformedImport and leaves the list
\* and the persisted value as they were; no part of it is applied: the only
\* dialog it opens is the alert, and a list an import puts in place is the
\* whole list of a file that is not malformed.
C7_MalformedImport ==
    [][/\ (last'.op = "onload" /\ Malformed(last'.file)) =>
            /\ last'.result = "MalformedImport"
            /\ Untouched
            /\ Len(pending') = Len(pending) + 1
            /\ SubSeq(pending', 1, Len(pending)) = pending
            /\ pending'[Len(pending')].op = "alert"
       /\ (last'.op = "import" /\ items' # items) =>
            /\ ~Malformed(last'.file)
            /\ items' = JSONparse(last'.file.text).val]_vars

\* a file whose second element lacks checked was turned down
C7_Witness ==
    /\ last.op = "onload" /\ last.result = "MalformedImport"
    /\ LET r == JSONparse(last.file.text)
       IN  /\ r.ok /\ r.val.kind = "array" /\ Len(r.val.elems) = 2
           /\ r.val.elems[1].checked.ty = "boolean"
           /\ r.val.elems[2].checked.ty = "undefined"
    /\ Len(Elems) > 0 /\ Persisted(storage, items)

\* C8: the import of a backup written by handleExport is not turned down, and
\* once confirmed it leaves the list the backup was written from: the same
\* length, the same texts in the same order, the same checked flags.
C8_RoundTrip ==
    [][/\ (last'.op = "onload" /\ last'.file.backup) => last'.result = "prompt"
       /\ (last'.op = "import" /\ last'.file.backup /\ Head(microtasks).confirmed) =>
            LET of == last'.file.of.elems
            IN  /\ items' = last'.file.of
                /\ Len(Elems') = Len(of)
                /\ \A i \in 1..Len(of) :
                      /\ Elems'[i].text = of[i].text
                      /\ Elems'[i].checked = of[i].checked]_vars

\* the backup of the earlier session was imported into another list
C8_Witness ==
    /\ last.op = "import" /\ last.result = "ok" /\ last.file.backup
    /\ items = Arr(<<Item(<<"T", "o", "w", "e", "l">>, TRUE),
                    Item(<<"S", "o", "c", "k", "s">>, FALSE)>>)
    /\ last.file.of = items

\* a backup written in this session from a list with a further property was
\* imported again
C8_WitnessSession ==
    /\ last.op = "import" /\ last.result = "ok" /\ last.file \in downloads
    /\ last.file.of = items

\* C9: the rendered rows are a stable partition of the list: one row per
\* item, each with the item's index in the list, every unchecked row before
\* every checked row, rows of the same status in increasing index; and the
\* list is left as it was saved or loaded before the rows were computed.
C9_DisplayOrder ==
    pc = "running" =>
        /\ Len(dom) = Len(Elems)
        /\ \A k \in 1..Len(dom) :
              /\ dom[k].index \in 0..(Len(Elems) - 1)
              /\ dom[k].item = Elems[dom[k].index + 1]
        /\ \A k, l \in 1..Len(dom) : k < l =>
              /\ dom[k].index # dom[l].index
              /\ dom[k].item.checked.b => dom[l].item.checked.b
              /\ dom[k].item.checked.b = dom[l].item.checked.b
                    => dom[k].index < dom[l].index
        /\ (last.wrote = "ok" \/ (last.op = "loadItems" /\ last.result = "parsed"))
              => Persisted(storage, items)

\* [A unchecked, B checked, C unchecked, ...] is shown as [A, C, ..., B]
C9_Witness ==
    /\ pc = "running" /\ Len(Elems) >= 3
    /\ ~Elems[1].checked.b /\ Elems[2].checked.b /\ ~Elems[3].checked.b
    /\ dom[1].index = 0 /\ dom[2].index = 2 /\ dom[Len(dom)].index = 1

\* C10: a confirmed resetChecks leaves every item unchecked and keeps the
\* length of the list and the text and place of every item; applied to a
\* list without a checked item it leaves the list as it is; the handler
\* itself, before the confirmation, changes nothing.
C10_Reset ==
    [][/\ (last'.op = "reset" /\ Head(microtasks).confirmed) =>
            /\ Len(Elems') = Len(Elems)
            /\ \A k \in 1..Len(Elems) :
                  /\ Elems'[k].checked = Bool(FALSE)
                  /\ Elems'[k].text = Elems[k].text
                  /\ Elems'[k].note = Elems[k].note
            /\ (\A k \in 1..Len(Elems) : ~Elems[k].checked.b) => items' = items
            /\ Saved
       /\ last'.op = "handleReset" => Untouched]_vars

\* a reset has unchecked the list, and a second confirmed reset is about to
\* run on the list it left
C10_Witness ==
    /\ last.op = "reset" /\ last.result = "ok"
    /\ Len(Elems) > 1 /\ \A k \in 1..Len(Elems) : ~Elems[k].checked.b
    /\ microtasks # <<>> /\ Head(microtasks).d.op = "reset" /\ Head(microtasks).confirmed

\* the second of two confirmed resets has run
C10_WitnessTwice ==
    /\ last.op = "reset" /\ last.result = "ok" /\ microtasks = <<>> /\ ops = 2
    /\ reading = <<>> /\ downloads = {} /\ pending = <<>>
    /\ Len(Elems) = 2 /\ \A k \in 1..Len(Elems) : ~Elems[k].checked.b

(***************************************************************************)
(* Properties of a step, stated on the state it leaves: last names the     *)
(* step, before holds the list and the persisted value it found.           *)
(***************************************************************************)
Was == before.items.elems

\* the step wrote the list it left, or the write was rejected and the
\* persisted value is the one the step found
Wrote ==
    /\ last.wrote \in {"ok", "failed"}
    /\ last.wrote = "ok" => Persisted(storage, items)
    /\ last.wrote = "failed" => storage = before.storage

\* the step left the list and the persisted value as it found them, and
\* wrote nothing
Kept == items = before.items /\ storage = before.storage /\ last.wrote = "none"

\* C11 as stated: resetChecks invoked on an empty list, or on a list whose
\* items are all unchecked, leaves the list unchanged and still writes it
\* to the persistence medium.
C11_NoOpPersist ==
    (last.op = "handleReset" /\ (Was = <<>> \/ ~HasCheckedItems(Was)))
        => (items = before.items /\ last.wrote \in {"ok", "failed"})

\* C11 as amended: handleReset invoked on an empty list, or on a list whose
\* items are all unchecked, shows a notice, leaves the list and the
\* persisted value unchanged and writes nothing; the unchecking that runs
\* after the confirmation, when it finds the list empty or all unchecked,
\* leaves the list unchanged and writes it.
C11_GuardedReset ==
    /\ (last.op = "handleReset" /\ (Was = <<>> \/ ~HasCheckedItems(Was)))
          => (last.result = "Notice" /\ Kept /\ modalTitle(pending) = "Notice")
    /\ (last.op = "reset" /\ last.result = "ok" /\ (Was = <<>> \/ ~HasCheckedItems(Was)))
          => (items = before.items /\ Wrote)

\* reset was pressed on the six unchecked default items while the persisted
\* value was not their serialization: a notice, and no write
C11_Witness ==
    /\ last.op = "handleReset" /\ last.result = "Notice"
    /\ Len(Elems) = 6 /\ ~HasCheckedItems(Elems) /\ ~Persisted(storage, items)

\* the unchecking ran on a list that was emptied while the prompt was open
C11_WitnessEmpty ==
    /\ last.op = "reset" /\ last.result = "ok" /\ last.wrote = "ok"
    /\ Was = <<>> /\ Elems = <<>> /\ Persisted(storage, items)

\* the unchecking ran on a list whose last checked item was unchecked while
\* the prompt was open
C11_WitnessUnchecked ==
    /\ last.op = "reset" /\ last.result = "ok" /\ last.wrote = "ok"
    /\ Len(Was) = 2 /\ ~HasCheckedItems(Was) /\ ops = 2 /\ downloads = {}
    /\ reading = <<>>

\* the six default items by name, in order, all unchecked
SixDefaults ==
    Arr(<<Item(<<"T", "o", "w", "e", "l">>, FALSE),
          Item(<<"W", "a", "t", "e", "r", " ", "b", "o", "t", "t", "l", "e">>, FALSE),
          Item(<<"H", "e", "a", "d", "p", "h", "o", "n", "e", "s">>, FALSE),
          Item(<<"G", "y", "m", " ", "s", "h", "o", "e", "s">>, FALSE),
          Item(<<"W", "o", "r", "k", "o", "u", "t", " ", "c", "l", "o", "t", "h", "e", "s">>,
               FALSE),
          Item(<<"L", "o", "c", "k">>, FALSE)>>)

\* C12: load, when the persistence medium holds no value (or the empty
\* string), sets the list to the six default items Towel, Water bottle,
\* Headphones, Gym shoes, Workout clothes, Lock, in that order and unchecked,
\* and writes that list to the persistence medium at once; the page then
\* runs.
C12_LoadDefaults ==
    (last.op = "loadItems" /\ (~before.storage.present \/ before.storage.text = <<>>))
        => /\ last.result = "default"
           /\ items = SixDefaults
           /\ Wrote
           /\ last.wrote = "failed" => modalTitle(pending) = "Storage Error"
           /\ pc = "running"

\* the page was opened on an empty localStorage: the six defaults are the
\* list and are persisted
C12_Witness ==
    /\ last.op = "loadItems" /\ ~before.storage.present /\ last.wrote = "ok"
    /\ Len(Elems) = 6 /\ ~HasCheckedItems(Elems)
    /\ storage.present /\ Persisted(storage, items)

\* the persisted value the step found exists and JSON.parse throws on it
Unparseable == before.storage.present /\ ~JSONparse(before.storage.text).ok

\* C13: load, when the persisted value exists but fails to parse, raises no
\* error, sets the list to the six default items and persists them at once:
\* after the load the persistence medium holds the serialized defaults, not
\* the unparseable value.
C13_ParseFailurePersists ==
    (last.op = "loadItems" /\ Unparseable)
        => /\ pc = "running"
           /\ items = SixDefaults
           /\ Wrote
           /\ last.wrote = "ok" => storage # before.storage

\* a mutation that went through: add, toggle, remove, resetChecks, import
Mutated ==
    /\ last.op \in {"handleAddItem", "handleToggleItem", "delete", "reset", "import"}
    /\ last.result = "ok"

\* C14: where the persistence medium accepts the writes, after each
\* completed successful mutation (add, toggle, remove, resetChecks, import)
\* and after load, the persisted value is the serialization of the list:
\* the same items in the same order with the same flags.
C14_PersistedMirrorsList ==
    ((Mutated \/ (last.op = "loadItems" /\ pc = "running")) /\ last.wrote # "failed")
        => Persisted(storage, items)

\* the list is what the step named by last makes of the list it found
KeepsResult ==
    CASE last.op = "loadItems"        -> items = SixDefaults
      [] last.op = "handleAddItem"    ->
            /\ Len(Elems) = Len(Was) + 1
            /\ SubSeq(Elems, 1, Len(Was)) = Was
            /\ IsTrimOf(Elems[Len(Elems)].text.s, last.input)
      [] last.op = "handleToggleItem" ->
            /\ Len(Elems) = Len(Was)
            /\ \A k \in 1..Len(Was) :
                  /\ Elems[k].text = Was[k].text
                  /\ Elems[k].checked.b = (Was[k].checked.b = (k # last.index + 1))
      [] last.op = "delete"           ->
            IF last.index < Len(Was)
            THEN /\ Len(Elems) = Len(Was) - 1
                 /\ \A k \in 1..Len(Elems) :
                       Elems[k] = IF k <= last.index THEN Was[k] ELSE Was[k + 1]
            ELSE Elems = Was
      [] last.op = "reset"            ->
            /\ Len(Elems) = Len(Was)
            /\ \A k \in 1..Len(Was) :
                  Elems[k].text = Was[k].text /\ ~Elems[k].checked.b
      [] last.op = "import"           -> items = JSONparse(last.file.text).val
      [] OTHER                        -> FALSE

\* C15: when the persistence medium rejects the write of a save, a
\* StorageError is signalled for the user's notice (the modal shows the
\* storage error), the list keeps the result of the mutation that
\* triggered the save, the persisted value stays what it was before the
\* write, and the page goes on handling operations.
C15_RejectedWrite ==
    last.wrote = "failed"
        => /\ modalTitle(pending) = "Storage Error"
           /\ KeepsResult
           /\ storage = before.storage
           /\ pc = "running"

\* an operation has begun and its save is still to come: a file is being
\* read, or a handler awaits the answer to its confirmation
InProgress ==
    \/ reading # <<>>
    \/ \E i \in 1..Len(pending) : pending[i].op # "alert"
    \/ \E i \in 1..Len(microtasks) : microtasks[i].d.op # "alert"

\* C16: operations are serialized: once an operation (add, toggle, remove,
\* resetChecks, import) has begun, no second operation begins or changes
\* the list before the first has saved, also not while the first waits for
\* a confirmation or for the file to be read.
C16_Serialized ==
    [][InProgress =>
        ~(/\ last'.op \in {"handleAddItem", "handleToggleItem", "handleDeleteItem",
                           "handleReset", "handleImportFile"}
          /\ last'.result \in {"ok", "prompt", "reading"})]_vars

\* every element is an object with the two properties text and checked and
\* no further one
TwoFields(es) ==
    \A i \in 1..Len(es) :
        /\ es[i].ty = "object"
        /\ es[i].text.ty # "undefined"
        /\ es[i].checked.ty # "undefined"
        /\ es[i].note.ty = "undefined"

\* the elements of the array that the JSON text holds
ElemsOf(text) == JSONparse(text).val.elems

\* C17: further properties of imported elements are ignored: after an
\* import that went through, every item of the list and of the persisted
\* value has the two properties text and checked and no other, and so has
\* every item of a backup exported afterwards.
C17_ExtraFieldsIgnored ==
    /\ (last.op = "import" /\ last.result = "ok")
          => /\ TwoFields(Elems)
             /\ last.wrote = "ok" => TwoFields(ElemsOf(storage.text))
    /\ \A f \in downloads : TwoFields(ElemsOf(f.text))

\* a toggle that went through is followed at once by a toggle of the same index
ToggleTwice ==
    /\ last.op = "handleToggleItem" /\ last.result = "ok"
    /\ last'.op = "handleToggleItem" /\ last'.index = last.index

\* C18 as stated: toggle followed by toggle on the same index in range, with
\* no operation in between, restores the complete state: every item's text,
\* flag and position, and the persisted value, are what they were before
\* the first toggle.
C18_ToggleTwiceRestoresAll ==
    [][ToggleTwice => (items' = before.items /\ storage' = before.storage)]_vars

\* C18 as amended: toggle followed by toggle on the same index in range, with
\* no operation in between, restores the list: every item's text, flag and
\* position; where the second write is accepted the persisted value is the
\* serialization of the restored list, which is the value before the first
\* toggle if that value was the serialization of the list then; where it is
\* rejected the persisted value is the one the first toggle left.
C18_ToggleTwiceRestoresList ==
    [][ToggleTwice =>
        /\ last'.result = "ok"
        /\ items' = before.items
        /\ last'.wrote = "ok" => Persisted(storage', before.items)
        /\ (last'.wrote = "ok" /\ Persisted(before.storage, before.items))
              => storage' = before.storage
        /\ last'.wrote = "failed" => storage' = storage]_vars

\* the item at index 1 of the saved list was checked and unchecked again:
\* the list and the persisted value are those of before
C18_Witness ==
    /\ last.op = "handleToggleItem" /\ last.result = "ok" /\ last.index = 1
    /\ last.wrote = "ok" /\ ops = 2 /\ reading = <<>> /\ downloads = {}
    /\ Len(Elems) = 2 /\ Elems[1].checked.b /\ ~Elems[2].checked.b
    /\ Len(Was) = 2 /\ Was[1].checked.b /\ Was[2].checked.b
    /\ Persisted(before.storage, before.items)
    /\ Persisted(storage, items)

\* the second write was rejected: the list is restored, the persisted value
\* is not
C18_WitnessRejected ==
    /\ last.op = "handleToggleItem" /\ last.result = "ok" /\ last.index = 0
    /\ last.wrote = "failed" /\ ops = 2 /\ reading = <<>> /\ downloads = {}
    /\ Len(Elems) = 6 /\ ~HasCheckedItems(Elems) /\ Was[1].checked.b
    /\ storage = before.storage /\ Persisted(storage, before.items)

\* The item at last.index was removed from the list Was by the step before,
\* and the step now taken is an add whose trimmed input is that item's text,
\* which no item left in the list has, up to case.
Removed == Was[last.index + 1]

Remaining == SubSeq(Was, 1, last.index) \o SubSeq(Was, last.index + 2, Len(Was))

RemoveThenAdd ==
    /\ last.op = "delete" /\ last.result = "ok" /\ last.index < Len(Was)
    /\ last'.op = "handleAddItem" /\ trim(last'.input) = Removed.text.s
    /\ \A k \in 1..Len(Remaining) :
          ~SameIgnoringCase(Remaining[k].text.s, Removed.text.s)

C19_WitnessBlank ==
    /\ last.op = "handleAddItem" /\ last.result = "EmptyText" /\ last.input = <<>>
    /\ ops = 2 /\ Elems = <<>> /\ storage = Stored(<<Tok("["), Tok("]")>>)

\* C20: export never changes the store: handleExport leaves the list and
\* the persisted value as it found them and writes nothing to the
\* persistence medium, also where it refuses because the list is empty and
\* where the download fails; the rest of it, after its alert is closed,
\* changes nothing either.
C20_ExportKeepsStore ==
    /\ last.op = "handleExport"
          => /\ Kept
             /\ last.result \in {"Notice", "ExportFailed", "ok"}
             /\ (last.result = "Notice") = (Was = <<>>)
             /\ pc = "running"
    /\ last.op = "alert" => Kept

\* a backup of the saved list, whose first item is checked and whose second
\* is not, was written; the list and the persisted value are as before
C20_Witness ==
    /\ last.op = "handleExport" /\ last.result = "ok"
    /\ Len(Elems) = 2 /\ Elems[1].checked.b /\ ~Elems[2].checked.b
    /\ \E f \in downloads : f.of = items /\ ElemsOf(f.text) = Elems
    /\ Persisted(storage, items)

\* export was refused on the empty list
C20_WitnessEmpty ==
    /\ last.op = "handleExport" /\ last.result = "Notice" /\ Elems = <<>>
    /\ downloads = {} /\ modalTitle(pending) = "Notice"

\* the download failed
C20_WitnessFailed ==
    /\ last.op = "handleExport" /\ last.result = "ExportFailed" /\ Len(Elems) = 6
    /\ downloads = {} /\ modalTitle(pending) = "Error"

\* the handlers of the destructive operations up to their prompt, and their
\* parts after it
Destructive == {"handleDeleteItem", "handleReset", "handleImportFile", "onload", "onerror"}

AfterPrompt == {"delete", "reset", "import"}

\* C21: delete-item, reset-all and import-overwrite change the list and the
\* persisted value only after their confirmation prompt returned true: the
\* handler up to its prompt changes neither; a click on cancel or on the
\* backdrop makes every prompt it resolves return false; and the part of the
\* handler after a prompt that returned false leaves the list and the
\* persisted value as they are and writes nothing.
C21_ConfirmedOnly ==
    [][/\ last'.op \in Destructive => Untouched
       /\ last'.op = "click" =>
             /\ Untouched
             /\ \A i \in 1..Len(microtasks') :
                   microtasks'[i].confirmed = (last'.result = "confirm")
       /\ last'.op \in AfterPrompt =>
             IF Head(microtasks).confirmed
             THEN last'.result = "ok"
             ELSE last'.result = "cancelled" /\ Untouched /\ dom' = dom]_vars

\* the prompt of a delete was dismissed by a click on the backdrop, and the
\* handler has ended: the list and the persisted value are as before
C21_Witness ==
    /\ last.op = "delete" /\ last.result = "cancelled" /\ last.index = 0
    /\ ops = 1 /\ microtasks = <<>> /\ pending = <<>>
    /\ items = Arr(SavedList) /\ Persisted(storage, items)

\* the prompt of a reset is being dismissed by a click on the backdrop
C21_WitnessBackdrop ==
    /\ last.op = "click" /\ last.result = "backdrop"
    /\ microtasks # <<>> /\ Head(microtasks).d.op = "reset" /\ HasCheckedItems(Elems)

\* the prompt of an import was cancelled
C21_WitnessImport ==
    /\ last.op = "import" /\ last.result = "cancelled" /\ last.file.backup
    /\ items # last.file.of /\ Len(Elems) = 6

\* C22: the item a confirmed delete removes is the item whose text its prompt
\* showed: whatever changed the list while the prompt was open, the splice
\* removes that item or nothing, never another item.
C22_RemovesItemShown ==
    [][(last'.op = "delete" /\ Head(microtasks).confirmed) =>
        LET d == Head(microtasks).d
        IN  \/ Elems' = Elems
            \/ /\ d.index < Len(Elems)
               /\ Elems[d.index + 1].text = d.itemText
               /\ Elems' = Splice(Elems, d.index)]_vars

\* the dialogs of microtasks that were resolved as confirmed
Confirmed(ms) == {i \in 1..Len(ms) : ms[i].confirmed}

\* C23: each dialog opened by showModal is resolved once, and only by a
\* click meant for it: a click resolves each pending dialog at most once,
\* one click on the confirm button does not resolve two pending dialogs as
\* confirmed, and no listener of a resolved dialog stays attached.
C23_OneDialogPerClick ==
    [][last'.op = "click" =>
        /\ Len(microtasks') <= Len(pending)
        /\ Cardinality(Confirmed(microtasks')) <= 1
        /\ \A i \in 1..Len(pending') :
              \A j \in 1..Len(microtasks') : pending'[i] # microtasks'[j].d]_vars

\* v is an array whose every element is an object with a string text and a
\* boolean checked
ItemList(v) ==
    /\ v.kind = "array"
    /\ \A i \in 1..Len(v.elems) :
          /\ v.elems[i].ty = "object"
          /\ v.elems[i].text.ty = "string"
          /\ v.elems[i].checked.ty = "boolean"

\* C24: after load, whatever the persistence medium held, the list is a
\* sequence whose every element has a string text and a boolean checked, and
\* the page runs; a persisted value that parses as JSON and is no such array
\* is not adopted as the list.
C24_LoadedListWellFormed ==
    last.op = "loadItems" => (ItemList(items) /\ pc = "running")

====
